---- MODULE Spec2Model ----
(***************************************************************************)
(* The WebView wrapper of src/appkit/webview/mod.rs as a state machine:    *)
(* the two constructors (new, with) with the allocator they share, the     *)
(* detached clone handed to did_load, load_url, and the wrapper's drop.    *)
(* The foreign heap (views, content controllers, delegate objects) and the *)
(* Rust heap (the Rc<RefCell<T>> cells) are explicit, one step per         *)
(* message send, so that orderings inside the constructors are visible.    *)
(***************************************************************************)
EXTENDS Integers, Sequences, FiniteSets, TLC

\* ------------------------------------------------------------- bounds
MaxCalls == 3     \* calls of new, with, load_url, clone_as_handle in one run

\* ------------------------------------------------------------- values
None == 0
YES == TRUE
NO == FALSE
WEBVIEW_DELEGATE_PTR == "rstWebViewDelegatePtr"

\* Channel names a WebViewConfig may carry and the strings load_url is given.
HandlerNames == {"ipc", "log"}
Urls == {"https://example.com/", "not a url"}
WellFormed == {"https://example.com/"}
\* The handler sets a configuration is given: none, one, several.
Configs == {{}, {"ipc"}, {"ipc", "log"}}

\* ShareId comes from the objc_id crate, outside this repository: from_ptr
\* either adopts the +1 reference that new / alloc-init returned or retains
\* once more on top of it. fromPtrRetain is fixed per run and both are run.
VARIABLES
    pc,             \* control point of the constructor call in flight
    frame,          \* its locals
    fromPtrRetain,  \* retains ShareId::from_ptr adds to a +1 object (0 or 1)
    cells,          \* Rc<RefCell<T>> allocations
    fdelegates,     \* foreign delegate objects
    controllers,    \* foreign configurations' user content controllers
    views,          \* foreign WKWebView objects
    wrappers,       \* every WebView struct built so far
    life,           \* per struct: who owns it, whether it is still live
    didLoad,        \* log of did_load invocations
    loadCalls,      \* log of load_url invocations
    loadLog         \* log of loadRequest: messages received by views

vars == <<pc, frame, fromPtrRetain, cells, fdelegates, controllers, views,
          wrappers, life, didLoad, loadCalls, loadLog>>

NoFrame ==
    [fn |-> "none", H0 |-> {}, config_handlers |-> {}, config_objc |-> None,
     handlers |-> {}, configuration |-> None, delegate |-> None,
     internal_callback_ptr |-> None, raw_delegate |-> None,
     objc_delegate |-> None, webview |-> None, view |-> None,
     handle |-> None]

\* ------------------------------------------------- foreign-heap helpers
Heap ==
    [views |-> views, controllers |-> controllers, fdelegates |-> fdelegates,
     cells |-> cells, life |-> life]

SetHeap(h) ==
    /\ views' = h.views
    /\ controllers' = h.controllers
    /\ fdelegates' = h.fdelegates
    /\ cells' = h.cells
    /\ life' = h.life

\* Zeroing weak references (navigationDelegate, UIDelegate) to dead objects.
ClearWeak(h) ==
    [h EXCEPT !.views =
        [v \in DOMAIN h.views |->
            [h.views[v] EXCEPT
                !.navigationDelegate =
                    IF @ # None /\ ~h.fdelegates[@].alive THEN None ELSE @,
                !.UIDelegate =
                    IF @ # None /\ ~h.fdelegates[@].alive THEN None ELSE @]]]

\* A dying content controller releases the script message handlers it retained.
ReleaseHandlers(fd, hs) ==
    [d \in DOMAIN fd |->
        LET n == Cardinality({x \in hs : x.handler = d})
        IN IF n = 0 THEN fd[d]
           ELSE [fd[d] EXCEPT !.rc = @ - n, !.alive = (fd[d].rc - n > 0)]]

\* release of a view: the last release deallocates it with its configuration.
RelView(h, v) ==
    IF ~h.views[v].alive THEN h
    ELSE IF h.views[v].rc > 1 THEN [h EXCEPT !.views[v].rc = @ - 1]
    ELSE LET c == h.views[v].configuration
             fd2 == ReleaseHandlers(h.fdelegates, h.controllers[c].handlers)
         IN ClearWeak([h EXCEPT !.views[v].rc = 0,
                                !.views[v].alive = FALSE,
                                !.views[v].navigationDelegate = None,
                                !.views[v].UIDelegate = None,
                                !.controllers[c].handlers = {},
                                !.fdelegates = fd2])

\* release of a foreign delegate object.
RelFdel(h, d) ==
    IF ~h.fdelegates[d].alive THEN h
    ELSE ClearWeak([h EXCEPT !.fdelegates[d].rc = @ - 1,
                             !.fdelegates[d].alive = (h.fdelegates[d].rc > 1)])

\* drop of one Rc: the last one destroys the user delegate, and with it the
\* handle the delegate kept from did_load, if any.
RelCell(h, c, wr) ==
    IF ~h.cells[c].alive THEN h
    ELSE IF h.cells[c].strong > 1 THEN [h EXCEPT !.cells[c].strong = @ - 1]
    ELSE LET k == h.cells[c].kept
             h1 == [h EXCEPT !.cells[c].strong = 0, !.cells[c].alive = FALSE,
                             !.cells[c].kept = None]
         IN IF k = None THEN h1
            ELSE RelView([h1 EXCEPT !.life[k].live = FALSE], wr[k].objc)

\* ------------------------------------------------------ pure functions
Anchor(view, sel) == <<view, sel>>

\* lines 122-135: the struct WebView::new builds.
NewStruct(view) ==
    [internal_callback_ptr |-> None,
     delegate |-> None,
     objc_delegate |-> None,
     top |-> Anchor(view, "topAnchor"),
     leading |-> Anchor(view, "leadingAnchor"),
     trailing |-> Anchor(view, "trailingAnchor"),
     bottom |-> Anchor(view, "bottomAnchor"),
     width |-> Anchor(view, "widthAnchor"),
     height |-> Anchor(view, "heightAnchor"),
     center_x |-> Anchor(view, "centerXAnchor"),
     center_y |-> Anchor(view, "centerYAnchor"),
     objc |-> view]

\* lines 158-171: the struct WebView::with builds before the hook runs.
WithStructEarlyAttach(view, ptr, od, delegate) ==
    [NewStruct(view) EXCEPT !.internal_callback_ptr = ptr,
                            !.delegate = delegate,
                            !.objc_delegate = od]

WithStruct(view, ptr, od, delegate) ==
    [internal_callback_ptr |-> ptr,
     delegate |-> None,
     objc_delegate |-> od,
     top |-> Anchor(view, "topAnchor"),
     leading |-> Anchor(view, "leadingAnchor"),
     trailing |-> Anchor(view, "trailingAnchor"),
     bottom |-> Anchor(view, "bottomAnchor"),
     width |-> Anchor(view, "widthAnchor"),
     height |-> Anchor(view, "heightAnchor"),
     center_x |-> Anchor(view, "centerXAnchor"),
     center_y |-> Anchor(view, "centerYAnchor"),
     objc |-> view]

\* lines 188-203, two slips: the foreign delegate handle is carried over;
\* top is cloned from bottom.
CloneKeepingDelegate(self) ==
    [self EXCEPT !.internal_callback_ptr = None, !.delegate = None]

CloneSwappedAnchor(self) ==
    [self EXCEPT !.internal_callback_ptr = None, !.delegate = None,
                 !.objc_delegate = None, !.top = self.bottom]

CloneAsHandle(self) ==
    [internal_callback_ptr |-> None,
     delegate |-> None,
     top |-> self.top,
     leading |-> self.leading,
     trailing |-> self.trailing,
     bottom |-> self.bottom,
     width |-> self.width,
     height |-> self.height,
     center_x |-> self.center_x,
     center_y |-> self.center_y,
     objc |-> self.objc,
     objc_delegate |-> None]

\* lines 220-222.
GetBackingNode(self) == self.objc

\* line 208: NSString::new(url) holds the characters it was given.
NSStringNew(s) == [class |-> "NSString", chars |-> s]

\* line 211: +[NSURL URLWithString:] answers nil for a string that is no URL.
URLWithString(ns) ==
    IF ns.chars \in WellFormed
    THEN [class |-> "NSURL", absoluteString |-> ns.chars]
    ELSE [class |-> "nil", absoluteString |-> ""]

\* line 212.
RequestWithURL(u) == [class |-> "NSURLRequest", URL |-> u]


\* ---------------------------------------------------------------- Init
Init ==
    /\ pc = "idle"
    /\ frame = NoFrame
    /\ fromPtrRetain \in {0, 1}
    /\ cells = <<>>
    /\ fdelegates = <<>>
    /\ controllers = <<>>
    /\ views = <<>>
    /\ wrappers = <<>>
    /\ life = <<>>
    /\ didLoad = <<>>
    /\ loadCalls = <<>>
    /\ loadLog = <<>>

\* Calls made so far that count against MaxCalls: every constructor call
\* made a configuration, every load_url is logged, every crate-internal
\* clone left a struct of origin "clone".
Calls ==
    Len(controllers) + Len(loadCalls)
        + Cardinality({x \in DOMAIN life : life[x].origin = "clone"})

Life(origin, src, holder) ==
    [live |-> TRUE, origin |-> origin, src |-> src, holder |-> holder]

\* ------------------------------------------------------- WebView::new
\* lines 119-120: new(config) enters allocate_webview(config, None).
NewEnter(H) ==
    /\ pc = "idle"
    /\ Calls < MaxCalls
    /\ controllers' = Append(controllers, [handlers |-> {}])
    /\ frame' = [NoFrame EXCEPT !.fn = "new", !.H0 = H,
                                !.config_handlers = H,
                                !.config_objc = Len(controllers) + 1]
    /\ pc' = "alloc_entry"
    /\ UNCHANGED <<fromPtrRetain, cells, fdelegates, views, wrappers, life,
                   didLoad, loadCalls, loadLog>>

\* lines 122-135: the struct is built around the view.
NewBuild ==
    /\ pc = "new_view"
    /\ wrappers' = Append(wrappers, NewStruct(frame.webview))
    /\ life' = Append(life, Life("new", None, "ctor"))
    /\ views' = [views EXCEPT ![frame.webview].rc = @ + fromPtrRetain]
    /\ frame' = [frame EXCEPT !.view = Len(wrappers) + 1]
    /\ pc' = "new_struct"
    /\ UNCHANGED <<fromPtrRetain, cells, fdelegates, controllers, didLoad,
                   loadCalls, loadLog>>

\* lines 135-136: the struct is the value of new.
NewReturn ==
    /\ pc = "new_struct"
    /\ life' = [life EXCEPT ![frame.view].holder = "client"]
    /\ frame' = NoFrame
    /\ pc' = "idle"
    /\ UNCHANGED <<fromPtrRetain, cells, fdelegates, controllers, views,
                   wrappers, didLoad, loadCalls, loadLog>>

\* ------------------------------------------------------ WebView::with
\* lines 142-143: Rc::new(RefCell::new(delegate)).
WithRcNew(H) ==
    /\ pc = "idle"
    /\ Calls < MaxCalls
    /\ controllers' = Append(controllers, [handlers |-> {}])
    /\ cells' = Append(cells, [strong |-> 1, alive |-> TRUE,
                               borrowed |-> FALSE, kept |-> None])
    /\ frame' = [NoFrame EXCEPT !.fn = "with", !.H0 = H,
                                !.config_handlers = H,
                                !.config_objc = Len(controllers) + 1,
                                !.delegate = Len(cells) + 1]
    /\ pc' = "with_rc"
    /\ UNCHANGED <<fromPtrRetain, fdelegates, views, wrappers, life, didLoad,
                   loadCalls, loadLog>>

\* lines 145-148: Rc::clone, then Rc::into_raw keeps the count it took.
WithIntoRaw ==
    /\ pc = "with_rc"
    /\ cells' = [cells EXCEPT ![frame.delegate].strong = @ + 1]
    /\ frame' = [frame EXCEPT !.internal_callback_ptr = frame.delegate]
    /\ pc' = "with_raw"
    /\ UNCHANGED <<fromPtrRetain, fdelegates, controllers, views, wrappers,
                   life, didLoad, loadCalls, loadLog>>

\* line 151: msg_send![register_webview_delegate_class::<T>(), new].
WithDelegateNew ==
    /\ pc = "with_raw"
    /\ fdelegates' = Append(fdelegates,
                            [rc |-> 1, alive |-> TRUE,
                             ivars |-> (WEBVIEW_DELEGATE_PTR :> None)])
    /\ frame' = [frame EXCEPT !.raw_delegate = Len(fdelegates) + 1]
    /\ pc' = "with_fdel"
    /\ UNCHANGED <<fromPtrRetain, cells, controllers, views, wrappers, life,
                   didLoad, loadCalls, loadLog>>

\* line 152, skipped: the slot keeps its initial value.
WithSetIvarForgotten ==
    /\ pc = "with_fdel"
    /\ pc' = "with_ivar"
    /\ UNCHANGED <<frame, fromPtrRetain, cells, fdelegates, controllers,
                   views, wrappers, life, didLoad, loadCalls, loadLog>>

\* line 152: set_ivar(WEBVIEW_DELEGATE_PTR, internal_callback_ptr as usize).
WithSetIvar ==
    /\ pc = "with_fdel"
    /\ fdelegates' = [fdelegates EXCEPT
                        ![frame.raw_delegate].ivars[WEBVIEW_DELEGATE_PTR] =
                            frame.internal_callback_ptr]
    /\ pc' = "with_ivar"
    /\ UNCHANGED <<frame, fromPtrRetain, cells, controllers, views, wrappers,
                   life, didLoad, loadCalls, loadLog>>

\* lines 153 and 156: ShareId::from_ptr, then allocate_webview is entered.
WithShareId ==
    /\ pc = "with_ivar"
    /\ fdelegates' = [fdelegates EXCEPT
                        ![frame.raw_delegate].rc = @ + fromPtrRetain]
    /\ frame' = [frame EXCEPT !.objc_delegate = frame.raw_delegate]
    /\ pc' = "alloc_entry"
    /\ UNCHANGED <<fromPtrRetain, cells, controllers, views, wrappers, life,
                   didLoad, loadCalls, loadLog>>

\* --------------------------------------------------- allocate_webview
\* lines 40-41: mem::take(&mut config.handlers), config.into_inner().
AllocTake ==
    /\ pc = "alloc_entry"
    /\ frame' = [frame EXCEPT !.handlers = frame.config_handlers,
                              !.config_handlers = {},
                              !.configuration = frame.config_objc]
    /\ pc' = "alloc_taken"
    /\ UNCHANGED <<fromPtrRetain, cells, fdelegates, controllers, views,
                   wrappers, life, didLoad, loadCalls, loadLog>>

\* lines 51-54 without the test of line 43.
AllocSubscribeUnguarded(name) ==
    /\ pc = "alloc_taken"
    /\ name \in frame.handlers
    /\ controllers' = [controllers EXCEPT ![frame.configuration].handlers =
                          @ \cup {[name |-> name,
                                   handler |-> frame.objc_delegate]}]
    /\ fdelegates' = IF frame.objc_delegate = None THEN fdelegates
                     ELSE [fdelegates EXCEPT ![frame.objc_delegate].rc = @ + 1]
    /\ frame' = [frame EXCEPT !.handlers = @ \ {name}]
    /\ pc' = pc
    /\ UNCHANGED <<fromPtrRetain, cells, views, wrappers, life, didLoad,
                   loadCalls, loadLog>>

\* lines 43, 51-54: one turn of the loop, addScriptMessageHandler:name:.
AllocSubscribe(name) ==
    /\ pc = "alloc_taken"
    /\ frame.objc_delegate # None
    /\ name \in frame.handlers
    /\ controllers' = [controllers EXCEPT ![frame.configuration].handlers =
                          @ \cup {[name |-> name,
                                   handler |-> frame.objc_delegate]}]
    /\ fdelegates' = [fdelegates EXCEPT ![frame.objc_delegate].rc = @ + 1]
    /\ frame' = [frame EXCEPT !.handlers = @ \ {name}]
    /\ pc' = pc
    /\ UNCHANGED <<fromPtrRetain, cells, views, wrappers, life, didLoad,
                   loadCalls, loadLog>>

\* the loop left after any number of turns.
AllocSubscribeEarlyExit ==
    /\ pc = "alloc_taken"
    /\ pc' = "alloc_subscribed"
    /\ UNCHANGED <<frame, fromPtrRetain, cells, fdelegates, controllers,
                   views, wrappers, life, didLoad, loadCalls, loadLog>>

\* lines 43 and 55: no delegate, or the loop has run out of handlers.
AllocSubscribeDone ==
    /\ pc = "alloc_taken"
    /\ frame.objc_delegate = None \/ frame.handlers = {}
    /\ pc' = "alloc_subscribed"
    /\ UNCHANGED <<frame, fromPtrRetain, cells, fdelegates, controllers,
                   views, wrappers, life, didLoad, loadCalls, loadLog>>

\* lines 57-59: alloc, initWithFrame:configuration:.
AllocInit ==
    /\ pc = "alloc_subscribed"
    /\ views' = Append(views,
                       [alive |-> TRUE, rc |-> 1,
                        configuration |-> frame.configuration,
                        wantsLayer |-> NO,
                        translatesAutoresizingMaskIntoConstraints |-> YES,
                        navigationDelegate |-> None,
                        UIDelegate |-> None])
    /\ frame' = [frame EXCEPT !.webview = Len(views) + 1]
    /\ pc' = "alloc_inited"
    /\ UNCHANGED <<fromPtrRetain, cells, fdelegates, controllers, wrappers,
                   life, didLoad, loadCalls, loadLog>>

\* line 60.
AllocWantsLayer ==
    /\ pc = "alloc_inited"
    /\ views' = [views EXCEPT ![frame.webview].wantsLayer = YES]
    /\ pc' = "alloc_layer"
    /\ UNCHANGED <<frame, fromPtrRetain, cells, fdelegates, controllers,
                   wrappers, life, didLoad, loadCalls, loadLog>>

\* line 61.
AllocNoAutoresize ==
    /\ pc = "alloc_layer"
    /\ views' = [views EXCEPT
                   ![frame.webview].translatesAutoresizingMaskIntoConstraints = NO]
    /\ pc' = "alloc_constraints"
    /\ UNCHANGED <<frame, fromPtrRetain, cells, fdelegates, controllers,
                   wrappers, life, didLoad, loadCalls, loadLog>>

\* lines 63-64.
AllocSetNavigationDelegate ==
    /\ pc = "alloc_constraints"
    /\ frame.objc_delegate # None
    /\ views' = [views EXCEPT
                   ![frame.webview].navigationDelegate = frame.objc_delegate]
    /\ pc' = "alloc_nav"
    /\ UNCHANGED <<frame, fromPtrRetain, cells, fdelegates, controllers,
                   wrappers, life, didLoad, loadCalls, loadLog>>

\* line 65, skipped.
AllocSetUIDelegateForgotten ==
    /\ pc = "alloc_nav"
    /\ pc' = "alloc_ui"
    /\ UNCHANGED <<frame, fromPtrRetain, cells, fdelegates, controllers,
                   views, wrappers, life, didLoad, loadCalls, loadLog>>

\* line 65.
AllocSetUIDelegate ==
    /\ pc = "alloc_nav"
    /\ views' = [views EXCEPT
                   ![frame.webview].UIDelegate = frame.objc_delegate]
    /\ pc' = "alloc_ui"
    /\ UNCHANGED <<frame, fromPtrRetain, cells, fdelegates, controllers,
                   wrappers, life, didLoad, loadCalls, loadLog>>

\* lines 63, 66, 68: the view goes back to the constructor that asked.
AllocReturn ==
    /\ \/ pc = "alloc_ui"
       \/ pc = "alloc_constraints" /\ frame.objc_delegate = None
    /\ pc' = IF frame.fn = "new" THEN "new_view" ELSE "with_view"
    /\ UNCHANGED <<frame, fromPtrRetain, cells, fdelegates, controllers,
                   views, wrappers, life, didLoad, loadCalls, loadLog>>


\* --------------------------------------------- WebView::with, continued
\* lines 158-171: the struct is built; its delegate field is not yet set.
WithBuild ==
    /\ pc = "with_view"
    /\ wrappers' = Append(wrappers,
                          WithStruct(frame.webview,
                                     frame.internal_callback_ptr,
                                     frame.objc_delegate, frame.delegate))
    /\ life' = Append(life, Life("with", None, "ctor"))
    /\ views' = [views EXCEPT ![frame.webview].rc = @ + fromPtrRetain]
    /\ frame' = [frame EXCEPT !.view = Len(wrappers) + 1]
    /\ pc' = "with_struct"
    /\ UNCHANGED <<fromPtrRetain, cells, fdelegates, controllers, didLoad,
                   loadCalls, loadLog>>

\* lines 173-175 left out: the hook is never called.
WithDidLoadSkipped ==
    /\ pc = "with_struct"
    /\ pc' = "with_hooked"
    /\ UNCHANGED <<frame, fromPtrRetain, cells, fdelegates, controllers,
                   views, wrappers, life, didLoad, loadCalls, loadLog>>

\* lines 173-175: borrow_mut, clone_as_handle, did_load is entered.
WithDidLoadCall ==
    /\ pc = "with_struct"
    /\ LET handle == CloneAsHandle(wrappers[frame.view])
           id == Len(wrappers) + 1
       IN /\ wrappers' = Append(wrappers, handle)
          /\ life' = Append(life, Life("handle", frame.view, "hook"))
          /\ views' = [views EXCEPT ![handle.objc].rc = @ + 1]
          /\ didLoad' = Append(didLoad, [delegate |-> frame.delegate,
                                         view |-> id, for |-> frame.view,
                                         done |-> FALSE])
          /\ frame' = [frame EXCEPT !.handle = id]
    /\ cells' = [cells EXCEPT ![frame.delegate].borrowed = TRUE]
    /\ pc' = "with_hook"
    /\ UNCHANGED <<fromPtrRetain, fdelegates, controllers, loadCalls, loadLog>>

\* lines 175-176: did_load returns; the delegate has either stored the handle
\* it was given or let it drop. The borrow ends with the block.
WithDidLoadReturn(keep) ==
    /\ pc = "with_hook"
    /\ didLoad' = [didLoad EXCEPT ![Len(didLoad)].done = TRUE]
    /\ LET h0 == [Heap EXCEPT !.cells[frame.delegate].borrowed = FALSE]
       IN IF keep
          THEN SetHeap([h0 EXCEPT !.cells[frame.delegate].kept = frame.handle,
                                  !.life[frame.handle].holder = "cell"])
          ELSE SetHeap(RelView([h0 EXCEPT !.life[frame.handle].live = FALSE],
                               wrappers[frame.handle].objc))
    /\ pc' = "with_hooked"
    /\ UNCHANGED <<frame, fromPtrRetain, wrappers, loadCalls, loadLog>>

\* line 178: view.delegate = Some(delegate), the local is moved in.
WithAttach ==
    /\ pc = "with_hooked"
    /\ wrappers' = [wrappers EXCEPT ![frame.view].delegate = frame.delegate]
    /\ frame' = [frame EXCEPT !.delegate = None]
    /\ pc' = "with_attached"
    /\ UNCHANGED <<fromPtrRetain, cells, fdelegates, controllers, views, life,
                   didLoad, loadCalls, loadLog>>

\* line 179.
WithReturn ==
    /\ pc = "with_attached"
    /\ life' = [life EXCEPT ![frame.view].holder = "client"]
    /\ frame' = NoFrame
    /\ pc' = "idle"
    /\ UNCHANGED <<fromPtrRetain, cells, fdelegates, controllers, views,
                   wrappers, didLoad, loadCalls, loadLog>>

\* ------------------------------------------------- runtime operations
\* Who may call a method of struct w now: its owner between constructor
\* calls, or the running did_load hook on the handle it was passed.
Usable(w) ==
    /\ w \in DOMAIN wrappers
    /\ life[w].live
    /\ \/ pc = "idle" /\ life[w].holder \in {"client", "cell"}
       \/ pc = "with_hook" /\ w = frame.handle

\* lines 207-215 with a check added: a string that is no URL is not sent.
LoadUrlValidating(w, s) ==
    /\ Usable(w)
    /\ Calls < MaxCalls
    /\ loadCalls' = Append(loadCalls, [view |-> w, url |-> s])
    /\ loadLog' = IF s \in WellFormed
                  THEN Append(loadLog,
                              [to |-> wrappers[w].objc, sel |-> "loadRequest:",
                               request |-> RequestWithURL(URLWithString(NSStringNew(s)))])
                  ELSE loadLog
    /\ UNCHANGED <<pc, frame, fromPtrRetain, cells, fdelegates, controllers,
                   views, wrappers, life, didLoad>>

\* lines 207-215.
LoadUrl(w, s) ==
    /\ Usable(w)
    /\ Calls < MaxCalls
    /\ LET url == NSStringNew(s)
           u == URLWithString(url)
           request == RequestWithURL(u)
       IN loadLog' = Append(loadLog,
                            [to |-> wrappers[w].objc, sel |-> "loadRequest:",
                             request |-> request])
    /\ loadCalls' = Append(loadCalls, [view |-> w, url |-> s])
    /\ UNCHANGED <<pc, frame, fromPtrRetain, cells, fdelegates, controllers,
                   views, wrappers, life, didLoad>>

\* lines 238-246 as they would run uncommented and unconditioned: the alias
\* is turned back into an Rc and dropped.
DropReleasingAlias(h, self) ==
    IF self.internal_callback_ptr = None THEN h
    ELSE RelCell(h, self.internal_callback_ptr, wrappers)

\* lines 235-248: Drop::drop, whose body is a comment.
DropImpl(h, self) == h

\* A struct owned by the client goes out of scope: Drop::drop, then its
\* fields in turn (lines 74, 78, 85): objc, objc_delegate, delegate.
DropWrapper(w) ==
    /\ pc = "idle"
    /\ w \in DOMAIN wrappers
    /\ life[w].live
    /\ life[w].holder = "client"
    /\ LET self == wrappers[w]
           h0 == DropImpl(Heap, self)
           h1 == RelView(h0, self.objc)
           h2 == IF self.objc_delegate = None THEN h1
                 ELSE RelFdel(h1, self.objc_delegate)
           h3 == IF self.delegate = None THEN h2
                 ELSE RelCell(h2, self.delegate, wrappers)
       IN SetHeap([h3 EXCEPT !.life[w].live = FALSE])
    /\ UNCHANGED <<pc, frame, fromPtrRetain, wrappers, didLoad, loadCalls,
                   loadLog>>

\* lines 188-203 called from elsewhere in the crate on a struct in use.
CloneHandle(w) ==
    /\ pc = "idle"
    /\ w \in DOMAIN wrappers
    /\ life[w].live
    /\ life[w].holder = "client"
    /\ Calls < MaxCalls
    /\ LET handle == CloneAsHandle(wrappers[w])
       IN /\ wrappers' = Append(wrappers, handle)
          /\ views' = [views EXCEPT ![handle.objc].rc = @ + 1]
    /\ life' = Append(life, Life("clone", w, "client"))
    /\ UNCHANGED <<pc, frame, fromPtrRetain, cells, fdelegates, controllers,
                   didLoad, loadCalls, loadLog>>

\* ---------------------------------------------------------------- Next
Next ==
    \/ \E H \in Configs : NewEnter(H)
    \/ NewBuild
    \/ NewReturn
    \/ \E H \in Configs : WithRcNew(H)
    \/ WithIntoRaw
    \/ WithDelegateNew
    \/ WithSetIvar
    \/ WithShareId
    \/ AllocTake
    \/ \E name \in HandlerNames : AllocSubscribe(name)
    \/ AllocSubscribeDone
    \/ AllocInit
    \/ AllocWantsLayer
    \/ AllocNoAutoresize
    \/ AllocSetNavigationDelegate
    \/ AllocSetUIDelegate
    \/ AllocReturn
    \/ WithBuild
    \/ WithDidLoadCall
    \/ \E keep \in BOOLEAN : WithDidLoadReturn(keep)
    \/ WithAttach
    \/ WithReturn
    \/ \E w \in DOMAIN wrappers, s \in Urls : LoadUrl(w, s)
    \/ \E w \in DOMAIN wrappers : DropWrapper(w)
    \/ \E w \in DOMAIN wrappers : CloneHandle(w)

Spec == Init /\ [][Next]_vars


\* ------------------------------------------------------------- claims
Structs == DOMAIN wrappers

\* w was built by the named constructor, and the constructor has returned it.
Returned(w, ctor) == life[w].origin = ctor /\ life[w].holder = "client"

DidLoadRuns(w) == {i \in DOMAIN didLoad : didLoad[i].for = w}

Names(hs) == {x.name : x \in hs}

\* The foreign runtime can deliver a callback to delegate object d: d is
\* subscribed to a channel, or is the navigation or UI delegate of a view.
CanReceive(d) ==
    \/ \E c \in DOMAIN controllers :
          \E x \in controllers[c].handlers : x.handler = d
    \/ \E v \in DOMAIN views :
          /\ views[v].alive
          /\ views[v].navigationDelegate = d \/ views[v].UIDelegate = d

\* C1: one call of WebView::with runs did_load exactly once, and that run has
\* started and finished by the time with returns; the count never grows
\* afterwards, and no wrapper ever has more than one run.
C1_OneDidLoadBeforeReturn ==
    \A w \in Structs :
        /\ Cardinality(DidLoadRuns(w)) <= 1
        /\ Returned(w, "with") =>
              /\ Cardinality(DidLoadRuns(w)) = 1
              /\ \A i \in DidLoadRuns(w) : didLoad[i].done

C1_Witness ==
    \E w \in Structs : Returned(w, "with") /\ ~life[w].live /\ pc = "idle"

\* C2: every struct made by clone_as_handle, the one did_load receives
\* included, has delegate, internal_callback_ptr and objc_delegate all None,
\* whatever its source holds in them.
C2_DetachedClone ==
    /\ \A h \in Structs :
          life[h].origin \in {"handle", "clone"} =>
              /\ wrappers[h].delegate = None
              /\ wrappers[h].internal_callback_ptr = None
              /\ wrappers[h].objc_delegate = None
    /\ \A i \in DOMAIN didLoad :
          /\ life[didLoad[i].view].origin = "handle"
          /\ wrappers[didLoad[i].view].objc_delegate = None

C2_Witness ==
    /\ \E h \in Structs :
          /\ life[h].origin = "clone"
          /\ wrappers[life[h].src].delegate # None
          /\ wrappers[life[h].src].internal_callback_ptr # None
          /\ wrappers[life[h].src].objc_delegate # None
    /\ \E i \in DOMAIN didLoad : didLoad[i].done

\* C3: when allocate_webview returns, the view's content controller has one
\* channel per element of the configuration's handler set H, named exactly
\* by H and all bound to the delegate, if a delegate was passed; and no
\* channel at all if none was passed, H empty or not.
C3_ChannelsMatchHandlers ==
    pc \in {"new_view", "with_view"} =>
        LET hs == controllers[views[frame.webview].configuration].handlers
        IN IF frame.objc_delegate # None
           THEN /\ Names(hs) = frame.H0
                /\ Cardinality(hs) = Cardinality(frame.H0)
                /\ \A x \in hs : x.handler = frame.objc_delegate
           ELSE hs = {}

C3_Witness ==
    /\ pc = "with_view"
    /\ Cardinality(frame.H0) = 2
    /\ Cardinality(controllers[views[frame.webview].configuration].handlers) = 2

\* C4 (as claimed): once a wrapper made by with has been dropped, nothing
\* else holds its delegate and the foreign delegate object can no longer
\* receive a callback, the alias has been released and the user delegate
\* destroyed.
C4_AliasReleasedOnceUnreachable ==
    \A w \in Structs :
        ( /\ Returned(w, "with")
          /\ ~life[w].live
          /\ ~CanReceive(wrappers[w].objc_delegate) )
        => ~cells[wrappers[w].internal_callback_ptr].alive

\* C5: WebView::new, whatever handler set its configuration carries, makes
\* no subscription and installs no delegate at any point, and returns a
\* struct with its view handle set and the three delegate fields None.
C5_NewWiresNothing ==
    /\ frame.fn = "new" =>
          /\ controllers[frame.config_objc].handlers = {}
          /\ frame.webview # None =>
                /\ views[frame.webview].navigationDelegate = None
                /\ views[frame.webview].UIDelegate = None
    /\ \A w \in Structs :
          life[w].origin = "new" =>
              /\ wrappers[w].objc \in DOMAIN views
              /\ wrappers[w].delegate = None
              /\ wrappers[w].internal_callback_ptr = None
              /\ wrappers[w].objc_delegate = None
              /\ views[wrappers[w].objc].navigationDelegate = None
              /\ views[wrappers[w].objc].UIDelegate = None
              /\ controllers[views[wrappers[w].objc].configuration].handlers = {}

C5_Witness ==
    /\ pc = "new_struct"
    /\ Cardinality(frame.H0) = 2
    /\ wrappers[frame.view].objc = frame.webview
    /\ \E w \in Structs : Returned(w, "new")

\* C6: every load_url(s), s a URL or not, sends exactly one loadRequest:, to
\* the view of the struct it was called on, with a request whose URL was
\* made from s as given (for a well-formed s it reads back as s), and
\* leaves every struct as it was.
C6_LoadUrlSendsOneRequest ==
    [][ (loadCalls' # loadCalls \/ loadLog' # loadLog) =>
          /\ Len(loadCalls') = Len(loadCalls) + 1
          /\ SubSeq(loadCalls', 1, Len(loadCalls)) = loadCalls
          /\ Len(loadLog') = Len(loadLog) + 1
          /\ SubSeq(loadLog', 1, Len(loadLog)) = loadLog
          /\ LET call == loadCalls'[Len(loadCalls')]
                 msg == loadLog'[Len(loadLog')]
             IN /\ msg.to = wrappers[call.view].objc
                /\ msg.sel = "loadRequest:"
                /\ msg.request.class = "NSURLRequest"
                /\ call.url \in WellFormed =>
                      msg.request.URL.absoluteString = call.url
          /\ wrappers' = wrappers ]_vars

C6_Witness ==
    /\ Len(loadLog) = 2
    /\ \E k \in DOMAIN loadCalls : loadCalls[k].url \notin WellFormed
    /\ \E k \in DOMAIN loadCalls : loadCalls[k].url \in WellFormed

\* C7: the view allocate_webview returns is layer-backed with automatic
\* constraint translation off; with a delegate passed, that delegate is its
\* navigation and its UI delegate, and neither was installed before every
\* handler of the configuration had been subscribed; with none passed,
\* neither is installed.
C7_ViewSetUpThenDelegates ==
    /\ pc \in {"new_view", "with_view"} =>
          /\ views[frame.webview].wantsLayer = YES
          /\ views[frame.webview].translatesAutoresizingMaskIntoConstraints = NO
          /\ views[frame.webview].navigationDelegate = frame.objc_delegate
          /\ views[frame.webview].UIDelegate = frame.objc_delegate
    /\ \A v \in DOMAIN views :
          (v = frame.webview /\
             (views[v].navigationDelegate # None \/ views[v].UIDelegate # None))
          => /\ frame.handlers = {}
             /\ Names(controllers[views[v].configuration].handlers) = frame.H0
             /\ views[v].wantsLayer = YES
             /\ views[v].translatesAutoresizingMaskIntoConstraints = NO

C7_Witness ==
    /\ pc = "with_view"
    /\ frame.H0 # {}
    /\ frame.objc_delegate # None
    /\ views[frame.webview].UIDelegate = frame.objc_delegate

\* C8: while did_load runs, the real wrapper has delegate None and both
\* internal_callback_ptr and objc_delegate set; the wrapper with returns has
\* delegate set to the very cell the pointer aliases, whose address is what
\* the foreign delegate object's instance variable holds.
C8_DelegateAttachedAfterHook ==
    /\ pc = "with_hook" =>
          /\ wrappers[frame.view].delegate = None
          /\ wrappers[frame.view].internal_callback_ptr # None
          /\ wrappers[frame.view].objc_delegate # None
    /\ \A w \in Structs :
          Returned(w, "with") =>
              /\ wrappers[w].delegate # None
              /\ wrappers[w].delegate = wrappers[w].internal_callback_ptr
              /\ fdelegates[wrappers[w].objc_delegate].ivars[WEBVIEW_DELEGATE_PTR]
                    = wrappers[w].delegate

C8_Witness ==
    /\ pc = "with_hook"
    /\ Len(loadCalls) > 0
    /\ \E w \in Structs : Returned(w, "with") /\ life[w].live

\* C9: whenever a foreign delegate object can receive a callback, its
\* instance variable holds the address of a user delegate cell that is
\* still allocated, with a strong count of at least 1; dropping the wrapper
\* does not change that.
C9_SlotValidWhileReceiving ==
    \A d \in DOMAIN fdelegates :
        CanReceive(d) =>
            LET a == fdelegates[d].ivars[WEBVIEW_DELEGATE_PTR]
            IN /\ a # None
               /\ a \in DOMAIN cells
               /\ cells[a].alive
               /\ cells[a].strong >= 1

C9_Witness ==
    \E w \in Structs :
        /\ Returned(w, "with")
        /\ ~life[w].live
        /\ CanReceive(wrappers[w].objc_delegate)

\* C10: the handle did_load receives names the same view and the same eight
\* anchors as the wrapper with returns, get_backing_node agrees on both, a
\* live struct always accounts for one retain of a live view, and every
\* load_url made through the handle reaches the returned wrapper's view.
C10_HandleSharesView ==
    /\ \A h \in Structs :
          life[h].origin = "handle" =>
              LET a == wrappers[h]
                  b == wrappers[life[h].src]
              IN /\ a.objc = b.objc
                 /\ GetBackingNode(a) = GetBackingNode(b)
                 /\ a.top = b.top /\ a.leading = b.leading
                 /\ a.trailing = b.trailing /\ a.bottom = b.bottom
                 /\ a.width = b.width /\ a.height = b.height
                 /\ a.center_x = b.center_x /\ a.center_y = b.center_y
                 /\ a.top = Anchor(b.objc, "topAnchor")
                 /\ \A k \in DOMAIN loadCalls :
                       loadCalls[k].view = h => loadLog[k].to = b.objc
    /\ \A v \in DOMAIN views :
          LET users == {x \in Structs : life[x].live /\ wrappers[x].objc = v}
          IN users # {} =>
                /\ views[v].alive
                /\ views[v].rc >= Cardinality(users)

C10_Witness ==
    \E h \in Structs :
        /\ life[h].origin = "handle"
        /\ life[h].live
        /\ Returned(life[h].src, "with")
        /\ ~life[life[h].src].live
        /\ \E k \in DOMAIN loadCalls : loadCalls[k].view = h

====
